---- MODULE Spec2Model ----
(***************************************************************************)
(* Model of the `auto_trait` attribute macro (src/src/lib.rs).             *)
(*                                                                         *)
(* The macro receives the primary target type as its argument tokens and   *)
(* the trait declaration as its input.  It collects the secondary          *)
(* `#[auto_trait(..)]` attributes of the declaration, removes them, builds *)
(* one `impl` block per target and emits the declaration followed by the   *)
(* blocks.  Every early `return` of the function yields the tokens of a    *)
(* compile error only; an out-of-bounds `swap_remove` panics.              *)
(***************************************************************************)
EXTENDS Integers, Sequences, FiniteSets, TLC

\* ---------------------------------------------------------------- bounds
MaxAttrs == 3
MaxItems == 2
MaxArgs == 2
MaxBounds == 2
MaxParams == 2

SeqsUpTo(S, n) == UNION {[1..k -> S] : k \in 0..n}

\* ------------------------------------------------------------ diagnostics
MissingArgument == "Argument is required and must be a type"
AmbiguousForwardTarget == "Multiple bounds to trait, can be problematic so how about no?"
UnsupportedTypeArguments == "Unsupported type arguments"
UnsupportedType == "Unsupported type"
UnsupportedMember == "Trait contains non-method definitions which is unsupported"

\* ------------------------------------------------------- syntax tree (syn)
\* The identifier of the trait under generation (input.ident).
TraitName == "Tr"

\* syn::TypeParamBound: a trait bound or a lifetime bound.
TraitBound(id) == [kind |-> "Trait", ident |-> id]
LifetimeBound(id) == [kind |-> "Lifetime", ident |-> id]

\* syn::GenericArgument: a plain type, or a constrained parameter `T: A + B`.
GenericType(id) == [kind |-> "Type", ident |-> id, bounds |-> <<>>]
Constraint(id, bs) == [kind |-> "Constraint", ident |-> id, bounds |-> bs]

\* syn::PathArguments of the last path segment.
NoArguments == [kind |-> "None", args |-> <<>>]
AngleBracketed(as) == [kind |-> "AngleBracketed", args |-> as]
Parenthesized == [kind |-> "Parenthesized", args |-> <<>>]

\* syn::Type.  `parens` counts the enclosing Type::Paren layers, so a type
\* is a Type::Paren iff parens > 0, and its `elem` has one layer less.
TypePath(id, arguments) ==
    [shape |-> "Path", parens |-> 0, ident |-> id, arguments |-> arguments]
OtherType(shape) ==
    [shape |-> shape, parens |-> 0, ident |-> "", arguments |-> NoArguments]
Paren(ty) == [ty EXCEPT !.parens = @ + 1]
IsParen(ty) == ty.parens > 0
Elem(ty) == [ty EXCEPT !.parens = @ - 1]

\* A token stream handed to syn::parse / syn::parse2 as a type: parsing
\* yields Ok(ty) or Err.
Tokens(ty) == [ok |-> TRUE, ty |-> ty]
NoTypeTokens == [ok |-> FALSE, ty |-> OtherType("")]

\* syn::Attribute: its path and its tokens.
Attribute(path, tokens) == [path |-> path, tokens |-> tokens]

\* syn::Block of a method: absent, written by the user, or the generated
\* call `#deref_name::#method_name(#(#method_args,)*)`.
NoBlock == [kind |-> "None", path |-> "", name |-> "", args |-> <<>>]
UserBlock == [kind |-> "User", path |-> "", name |-> "", args |-> <<>>]
DerefBlock(deref_name, method_name, method_args) ==
    [kind |-> "Call", path |-> deref_name, name |-> method_name, args |-> method_args]

\* syn::FnArg
Receiver(reference, mutability) ==
    [kind |-> "Receiver", reference |-> reference, mutability |-> mutability, pat |-> "self"]
Typed(pat) ==
    [kind |-> "Typed", reference |-> FALSE, mutability |-> FALSE, pat |-> pat]

\* syn::TraitItem: a method (signature, optional default block, `;`), or an
\* associated constant / type.
TraitItemMethod(id, inputs, default) ==
    [kind |-> "Method", ident |-> id, inputs |-> inputs, default |-> default,
     semi_token |-> (default.kind = "None")]
TraitItemOther(kind) ==
    [kind |-> kind, ident |-> "", inputs |-> <<>>, default |-> NoBlock, semi_token |-> TRUE]

\* syn::ItemTrait
ItemTrait(attrs, items) == [ident |-> TraitName, attrs |-> attrs, items |-> items]

\* ----------------------------------------------------------------- state
VARIABLES
    args_tokens,      \* the macro's `args` token stream (primary target)
    input_item,       \* the trait declaration as handed to the macro
    input,            \* `input`: the parsed declaration, mutated in place
    args,             \* `args`: the targets still to be processed
    attrs_to_remove,  \* `attrs_to_remove`: indices (1-based) of matched attributes
    impls,            \* `impls`: the implementation blocks built so far
    result,           \* the token stream the macro returns
    pc                \* position in the function body

vars == <<args_tokens, input_item, input, args, attrs_to_remove, impls, result, pc>>

\* The returned token stream: a compile error, or the declaration followed
\* by the implementation blocks.
NoResult == [error |-> "", item |-> <<>>, impls |-> <<>>]

\* Variant: the error is appended to what was generated so far.
CompileErrorPartial(message) == [error |-> message, item |-> <<input>>, impls |-> impls]

\* syn::Error::new(..).to_compile_error().into()
CompileError(message) == [error |-> message, item |-> <<>>, impls |-> <<>>]

\* quote!{ #input } extended with impls.drain(..)
Expansion(item, blocks) == [error |-> "", item |-> <<item>>, impls |-> blocks]

\* ------------------------------------------------- collecting the targets
\* Variant: the parsed type is put in front of the list.
PushArgFront(as, arg) ==
    IF IsParen(arg) THEN <<Elem(arg)>> \o as ELSE <<arg>> \o as

\* One matched attribute's parsed type is pushed; a parenthesized type is
\* replaced by its element.
PushArg(as, arg) ==
    IF IsParen(arg) THEN Append(as, Elem(arg)) ELSE Append(as, arg)

\* The loop over input.attrs from index idx on: every attribute whose path
\* is `auto_trait` is parsed as a type and its index recorded; a parse error
\* returns at once.
RECURSIVE ScanAttrs(_, _, _, _)
ScanAttrs(attrs, idx, as, rm) ==
    IF idx > Len(attrs)
    THEN [err |-> FALSE, args |-> as, attrs_to_remove |-> rm]
    ELSE IF attrs[idx].path = "auto_trait"
         THEN IF attrs[idx].tokens.ok
              THEN ScanAttrs(attrs, idx + 1, PushArg(as, attrs[idx].tokens.ty),
                             Append(rm, idx))
              ELSE [err |-> TRUE, args |-> as, attrs_to_remove |-> rm]
         ELSE ScanAttrs(attrs, idx + 1, as, rm)

\* Vec::swap_remove(idx): the element at idx is replaced by the last element
\* and the vector shortened by one (idx is 1-based here; the caller checks
\* that it is in bounds).
SwapRemove(v, idx) == SubSeq([v EXCEPT ![idx] = v[Len(v)]], 1, Len(v) - 1)

\* The loop `for idx in attrs_to_remove { input.attrs.swap_remove(idx) }`:
\* swap_remove panics when idx is out of bounds.
RECURSIVE RemoveAttrs(_, _)
RemoveAttrs(attrs, rm) ==
    IF rm = <<>>
    THEN [panicked |-> FALSE, attrs |-> attrs]
    ELSE IF Head(rm) > Len(attrs)
         THEN [panicked |-> TRUE, attrs |-> attrs]
         ELSE RemoveAttrs(SwapRemove(attrs, Head(rm)), Tail(rm))

\* ------------------------------------------------- resolving one target
\* The loop over constraint.bounds from index j on.  deref_type is an Option
\* (<<>> or <<ident>>); deref_type.replace(..) returning Some is the error.
\* Variant: a second bound silently replaces the first.
AlreadyBoundNever(deref_type) == FALSE

\* `if let Some(ident) = deref_type.replace(..)`: an earlier bound was found.
AlreadyBound(deref_type) == deref_type # <<>>

RECURSIVE ScanBounds(_, _, _, _)
ScanBounds(constraint, j, trait_name, deref_type) ==
    IF j > Len(constraint.bounds)
    THEN [err |-> FALSE, deref_type |-> deref_type]
    ELSE IF constraint.bounds[j].kind = "Trait"
            /\ constraint.bounds[j].ident = trait_name
         THEN IF AlreadyBound(deref_type)
              THEN [err |-> TRUE, deref_type |-> <<constraint.ident>>]
              ELSE ScanBounds(constraint, j + 1, trait_name, <<constraint.ident>>)
         ELSE ScanBounds(constraint, j + 1, trait_name, deref_type)

\* A constrained argument is overwritten by the plain type path of its
\* identifier.
RewriteArg(arg) == GenericType(arg.ident)

\* The loop over args.args from index i on: `out` is the argument list being
\* rewritten in place.
RECURSIVE ResolveArgs(_, _, _, _)
ResolveArgs(out, i, trait_name, deref_type) ==
    IF i > Len(out)
    THEN [err |-> FALSE, deref_type |-> deref_type, args |-> out]
    ELSE IF out[i].kind = "Constraint"
         THEN LET b == ScanBounds(out[i], 1, trait_name, deref_type) IN
              IF b.err
              THEN [err |-> TRUE, deref_type |-> b.deref_type, args |-> out]
              ELSE ResolveArgs([out EXCEPT ![i] = RewriteArg(out[i])], i + 1,
                               trait_name, b.deref_type)
         ELSE ResolveArgs(out, i + 1, trait_name, deref_type)

\* Variant: the header is taken after the rewriting loop.
TypeGenericsRewritten(original, rewritten) == rewritten

\* `type_generics`: the clone `result` of the angle-bracketed arguments taken
\* before the loop rewrites them.
TypeGenerics(original, rewritten) == original

\* The `match args` of one target: the error of an unsupported shape or of a
\* second bound, or else deref_type, type_generics and the rewritten target.
\* (`result.args.last_mut()` on a single unbound argument changes nothing.)
ResolveTarget(ty, trait_name) ==
    LET failed(message) ==
            [error |-> message, deref_type |-> <<>>, type_generics |-> NoArguments,
             ty |-> ty]
    IN  IF IsParen(ty) \/ ty.shape # "Path"
        THEN failed(UnsupportedType)
        ELSE IF ty.arguments.kind = "Parenthesized"
        THEN failed(UnsupportedTypeArguments)
        ELSE IF ty.arguments.kind = "None"
        THEN [error |-> "", deref_type |-> <<>>, type_generics |-> NoArguments,
              ty |-> ty]
        ELSE LET r == ResolveArgs(ty.arguments.args, 1, trait_name, <<>>) IN
             IF r.err
             THEN failed(AmbiguousForwardTarget)
             ELSE [error |-> "", deref_type |-> r.deref_type,
                   type_generics |-> TypeGenerics(ty.arguments, AngleBracketed(r.args)),
                   ty |-> [ty EXCEPT !.arguments = AngleBracketed(r.args)]]

\* Variant: without a bound the call is made on Self.
DerefNameSelf(deref_type, trait_name) ==
    IF deref_type = <<>> THEN "Self" ELSE deref_type[1]

\* deref_type.unwrap_or_else(|| trait_name.clone())
DerefName(deref_type, trait_name) ==
    IF deref_type = <<>> THEN trait_name ELSE deref_type[1]

\* ------------------------------------------------- forwarding the methods
\* Variant: every reference receiver goes through Deref::deref.
MethodArgAlwaysDeref(arg) ==
    IF arg.kind = "Receiver"
    THEN IF arg.reference
         THEN "core::ops::Deref::deref(self)"
         ELSE "self.into()"
    ELSE arg.pat

\* The argument passed on for one input of the signature.
MethodArg(arg) ==
    IF arg.kind = "Receiver"
    THEN IF arg.reference
         THEN IF arg.mutability
              THEN "core::ops::DerefMut::deref_mut(self)"
              ELSE "core::ops::Deref::deref(self)"
         ELSE "self.into()"
    ELSE arg.pat

\* method_args: one argument per input of the signature, in order.
MethodArgs(inputs) == [i \in 1..Len(inputs) |-> MethodArg(inputs[i])]

\* Variant: a method that has a body keeps it.
ForwardMethodKeepBody(method, deref_name) ==
    IF method.default.kind = "None"
    THEN [method EXCEPT
            !.default = DerefBlock(deref_name, method.ident, MethodArgs(method.inputs)),
            !.semi_token = FALSE]
    ELSE method

\* The clone of the method with the forwarding block installed as its
\* body and its `;` dropped.
ForwardMethod(method, deref_name) ==
    [method EXCEPT
        !.default = DerefBlock(deref_name, method.ident, MethodArgs(method.inputs)),
        !.semi_token = FALSE]

\* Variant: every member is taken for a method.
IsAnyItem(item) == TRUE

\* The arm `syn::TraitItem::Method(ref method)` of `match item`.
IsMethod(item) == item.kind = "Method"

\* The loop over input.items from index k on: methods are forwarded and
\* collected, any other item returns the error.
RECURSIVE ForwardItems(_, _, _, _)
ForwardItems(items, k, deref_name, methods) ==
    IF k > Len(items)
    THEN [err |-> FALSE, methods |-> methods]
    ELSE IF IsMethod(items[k])
         THEN ForwardItems(items, k + 1, deref_name,
                           Append(methods, ForwardMethod(items[k], deref_name)))
         ELSE [err |-> TRUE, methods |-> methods]

\* quote!{ impl #type_generics #trait_name for #args { #(#methods)* } }
ImplBlock(type_generics, trait_name, ty, methods) ==
    [generics |-> type_generics, trait_name |-> trait_name, self_ty |-> ty,
     methods |-> methods]

\* One iteration of `for mut args in args.drain(..)`: the block generated for
\* the target ty, or the error that ends the run.
GenerateFor(ty, item) ==
    LET trait_name == item.ident
        r == ResolveTarget(ty, trait_name)
        deref_name == DerefName(r.deref_type, trait_name)
        m == ForwardItems(item.items, 1, deref_name, <<>>)
        none == ImplBlock(NoArguments, trait_name, ty, <<>>)
    IN  IF r.error # ""
        THEN [error |-> r.error, block |-> none]
        ELSE IF m.err
        THEN [error |-> UnsupportedMember, block |-> none]
        ELSE [error |-> "",
              block |-> ImplBlock(r.type_generics, trait_name, r.ty, m.methods)]

\* ---------------------------------------------------------------- inputs
ParamName(i) == "T" \o ToString(i)
PatName(i) == "x" \o ToString(i)
MethodName(i) == "m" \o ToString(i)

Wrapper == TypePath("Wrapper", NoArguments)
BoxOf(as) == TypePath("Box", AngleBracketed(as))
BoxT == BoxOf(<<Constraint("T", <<TraitBound(TraitName)>>)>>)
PairTU == TypePath("Pair", AngleBracketed(
              <<Constraint("T", <<TraitBound(TraitName)>>),
                Constraint("U", <<TraitBound(TraitName)>>)>>))
BoxLifetime == BoxOf(<<Constraint("T", <<LifetimeBound(TraitName)>>)>>)
FnSugar == TypePath("Fn", Parenthesized)
BareFn == OtherType("BareFn")
Slice == OtherType("Slice")

\* Generated generic argument lists: every argument is a plain type or a
\* parameter constrained by up to MaxBounds bounds.
BoundSeqs == SeqsUpTo({TraitBound(TraitName), TraitBound("From")}, MaxBounds)
ArgChoices == {[constrained |-> FALSE, bounds |-> <<>>]}
                 \cup {[constrained |-> TRUE, bounds |-> bs] : bs \in BoundSeqs}
MkArg(i, c) == IF c.constrained THEN Constraint(ParamName(i), c.bounds)
                                ELSE GenericType("u32")
ArgLists == {[i \in 1..Len(f) |-> MkArg(i, f[i])] :
                f \in UNION {[1..k -> ArgChoices] : k \in 1..MaxArgs}}

GeneratedTypes == {BoxOf(as) : as \in ArgLists}
CuratedTypes == {Wrapper, BoxT, PairTU, BoxLifetime, FnSugar, BareFn, Paren(Wrapper),
                 Paren(PairTU)}

\* Attributes of the declaration: `auto_trait` ones (their tokens are the
\* parenthesized group after the path, or do not parse as a type) and others.
AutoTrait(tokens) == Attribute("auto_trait", tokens)
OtherAttrs == {Attribute("doc", NoTypeTokens), Attribute("cfg", NoTypeTokens)}
AutoTraitAttrs ==
    {AutoTrait(Tokens(Paren(ty))) : ty \in {Wrapper, BoxT, PairTU, Paren(Wrapper)}}
        \cup {AutoTrait(Tokens(Slice)), AutoTrait(NoTypeTokens)}
AttrLists == SeqsUpTo(OtherAttrs \cup AutoTraitAttrs, MaxAttrs)

\* Members of the declaration: methods with each kind of receiver, without or
\* with MaxParams further parameters, without or with a body; and
\* associated constants and types.
Receivers == {<<>>, <<Receiver(TRUE, FALSE)>>, <<Receiver(TRUE, TRUE)>>,
              <<Receiver(FALSE, FALSE)>>, <<Receiver(FALSE, TRUE)>>}
Params(n) == [i \in 1..n |-> Typed(PatName(i))]
ItemChoices ==
    {[kind |-> "Method", inputs |-> r \o Params(n), default |-> d] :
        r \in Receivers, n \in {0, MaxParams}, d \in {NoBlock, UserBlock}}
      \cup {[kind |-> k, inputs |-> <<>>, default |-> NoBlock] : k \in {"Const", "Type"}}
MkItem(i, c) == IF c.kind = "Method"
                THEN TraitItemMethod(MethodName(i), c.inputs, c.default)
                ELSE TraitItemOther(c.kind)
ItemLists == {[i \in 1..Len(f) |-> MkItem(i, f[i])] : f \in SeqsUpTo(ItemChoices, MaxItems)}

RefMethod == TraitItemMethod(MethodName(1), <<Receiver(TRUE, FALSE), Typed(PatName(1))>>, NoBlock)
FewItemLists == {<<>>, <<RefMethod>>, <<RefMethod, TraitItemOther("Const")>>}

\* ------------------------------------------------------------ the macro
Start(tokens, attrs, items) ==
    /\ args_tokens = tokens
    /\ input_item = ItemTrait(attrs, items)
    /\ input = ItemTrait(attrs, items)
    /\ args = <<>>
    /\ attrs_to_remove = <<>>
    /\ impls = <<>>
    /\ result = NoResult
    /\ pc = "parse_args"

\* The macro is entered with the declaration parsed.  The inputs vary the
\* primary target, the secondary target, the attribute list and the member
\* list in turn.
Init ==
    \/ \E ty \in GeneratedTypes \cup CuratedTypes, items \in FewItemLists :
          \/ Start(Tokens(ty), <<>>, items)
          \/ Start(Tokens(ty), <<AutoTrait(Tokens(Paren(BoxT)))>>, items)
          \/ Start(Tokens(Wrapper), <<AutoTrait(Tokens(Paren(ty)))>>, items)
    \/ \E tokens \in {Tokens(Wrapper), Tokens(PairTU), NoTypeTokens},
          attrs \in AttrLists, items \in FewItemLists :
          Start(tokens, attrs, items)
    \/ \E ty \in {Wrapper, BoxT, BareFn}, items \in ItemLists,
          attrs \in {<<>>, <<AutoTrait(Tokens(Paren(BoxT))), Attribute("doc", NoTypeTokens)>>} :
          Start(Tokens(ty), attrs, items)

\* let args: syn::Type = match syn::parse(args) {..}; let mut args = vec![args];
ParseArgs ==
    /\ pc = "parse_args"
    /\ IF args_tokens.ok
       THEN /\ args' = <<args_tokens.ty>>
            /\ pc' = "scan_attrs"
            /\ UNCHANGED result
       ELSE /\ result' = CompileError(MissingArgument)
            /\ pc' = "returned"
            /\ UNCHANGED args
    /\ UNCHANGED <<args_tokens, input_item, input, attrs_to_remove, impls>>

\* for idx in 0..input.attrs.len() {..}
CollectTargets ==
    /\ pc = "scan_attrs"
    /\ LET s == ScanAttrs(input.attrs, 1, args, <<>>) IN
       IF s.err
       THEN /\ result' = CompileError(MissingArgument)
            /\ pc' = "returned"
            /\ UNCHANGED <<args, attrs_to_remove>>
       ELSE /\ args' = s.args
            /\ attrs_to_remove' = s.attrs_to_remove
            /\ pc' = "remove_attrs"
            /\ UNCHANGED result
    /\ UNCHANGED <<args_tokens, input_item, input, impls>>

\* for idx in attrs_to_remove { input.attrs.swap_remove(idx); }
RemoveMatched ==
    /\ pc = "remove_attrs"
    /\ LET r == RemoveAttrs(input.attrs, attrs_to_remove) IN
       /\ input' = [input EXCEPT !.attrs = r.attrs]
       /\ pc' = IF r.panicked THEN "panicked" ELSE "generate"
    /\ UNCHANGED <<args_tokens, input_item, args, attrs_to_remove, impls, result>>

\* One iteration of for mut args in args.drain(..) {..}
GenerateImpl ==
    /\ pc = "generate"
    /\ args # <<>>
    /\ LET g == GenerateFor(Head(args), input) IN
       IF g.error # ""
       THEN /\ result' = CompileError(g.error)
            /\ pc' = "returned"
            /\ UNCHANGED <<args, impls>>
       ELSE /\ impls' = Append(impls, g.block)
            /\ args' = Tail(args)
            /\ UNCHANGED <<result, pc>>
    /\ UNCHANGED <<args_tokens, input_item, input, attrs_to_remove>>

\* let mut result = quote!{ #input }; result.extend(impls.drain(..)); result.into()
Emit ==
    /\ pc = "generate"
    /\ args = <<>>
    /\ result' = Expansion(input, impls)
    /\ pc' = "returned"
    /\ UNCHANGED <<args_tokens, input_item, input, args, attrs_to_remove, impls>>

Next == ParseArgs \/ CollectTargets \/ RemoveMatched \/ GenerateImpl \/ Emit

Spec == Init /\ [][Next]_vars

\* =============================================================== claims
\* Vocabulary of the claims, stated on the macro's inputs and its output.
IsAutoTrait(attr) == attr.path = "auto_trait"
IsOtherAttr(attr) == attr.path # "auto_trait"
Count(seq, x) == Cardinality({i \in DOMAIN seq : seq[i] = x})

Returned == pc = "returned"
Succeeded == pc = "returned" /\ result.error = ""
NoOutput == result.item = <<>> /\ result.impls = <<>>

\* The secondary annotations, and whether every target specification parses.
Secondary == SelectSeq(input_item.attrs, IsAutoTrait)
AllParse == args_tokens.ok /\ \A i \in DOMAIN Secondary : Secondary[i].tokens.ok

\* The supplied targets: the primary, then the secondaries in declaration
\* order, each secondary without its enclosing parentheses.
Unparenthesized(ty) == IF ty.parens > 0 THEN [ty EXCEPT !.parens = @ - 1] ELSE ty
SuppliedTargets ==
    <<args_tokens.ty>> \o [i \in 1..Len(Secondary) |-> Unparenthesized(Secondary[i].tokens.ty)]

\* The generic arguments of a target, and those carrying a bound that names
\* the trait.
GenericArgsOf(ty) ==
    IF ty.parens = 0 /\ ty.shape = "Path" /\ ty.arguments.kind = "AngleBracketed"
    THEN ty.arguments.args ELSE <<>>
NamesTrait(bound) == bound.kind = "Trait" /\ bound.ident = TraitName
TraitBoundsOf(arg) ==
    IF arg.kind = "Constraint"
    THEN {j \in DOMAIN arg.bounds : NamesTrait(arg.bounds[j])} ELSE {}
BoundArgs(ty) == {i \in DOMAIN GenericArgsOf(ty) : TraitBoundsOf(GenericArgsOf(ty)[i]) # {}}
TraitBoundCount(ty) ==
    Cardinality(UNION {{<<i, j>> : j \in TraitBoundsOf(GenericArgsOf(ty)[i])} :
                          i \in DOMAIN GenericArgsOf(ty)})
HasAmbiguousBounds(ty) == Cardinality(BoundArgs(ty)) >= 2

\* A target that generation can resolve: a path type that is not written in
\* parentheses, has no parenthesized arguments and names the trait in at most
\* one bound.
Resolvable(ty) ==
    /\ ty.parens = 0
    /\ ty.shape = "Path"
    /\ ty.arguments.kind # "Parenthesized"
    /\ TraitBoundCount(ty) <= 1

\* The target as it is written after `for`: constrained parameters plain.
PlainArg(arg) == IF arg.kind = "Constraint" THEN GenericType(arg.ident) ELSE arg
PlainTarget(ty) ==
    [ty EXCEPT !.arguments.args = [i \in DOMAIN @ |-> PlainArg(@[i])]]

HasNonMethod == \E k \in DOMAIN input_item.items : input_item.items[k].kind # "Method"
HadBody(k) == input_item.items[k].default.kind = "User"

\* Receiver kind of a signature and the arguments a forwarding call passes.
ReceiverKind(inputs) ==
    IF inputs = <<>> \/ inputs[1].kind # "Receiver" THEN "None"
    ELSE IF ~inputs[1].reference THEN "ByValue"
    ELSE IF inputs[1].mutability THEN "ByMutRef" ELSE "ByRef"
Projection(kind) ==
    CASE kind = "ByRef" -> <<"core::ops::Deref::deref(self)">>
      [] kind = "ByMutRef" -> <<"core::ops::DerefMut::deref_mut(self)">>
      [] kind = "ByValue" -> <<"self.into()">>
      [] kind = "None" -> <<>>
RemainingParams(inputs) == IF ReceiverKind(inputs) = "None" THEN inputs ELSE Tail(inputs)
ExpectedArgs(inputs) ==
    Projection(ReceiverKind(inputs))
        \o [i \in 1..Len(RemainingParams(inputs)) |-> RemainingParams(inputs)[i].pat]

\* C1: whatever the number and positions of the secondary `auto_trait`
\* annotations, removing them completes, the emitted declaration contains no
\* `auto_trait` annotation, and every other annotation is still there.
C1_EveryMatchRemovedOnce ==
    /\ pc # "panicked"
    /\ pc \in {"generate", "returned"} /\ AllParse =>
          /\ \A i \in DOMAIN input.attrs : ~IsAutoTrait(input.attrs[i])
          /\ \A i \in DOMAIN input_item.attrs :
                IsOtherAttr(input_item.attrs[i]) =>
                    Count(input.attrs, input_item.attrs[i])
                        = Count(input_item.attrs, input_item.attrs[i])
    /\ result.item # <<>> => result.item[1].attrs = input.attrs

\* C10: on a successful run the annotations that are not `auto_trait` target
\* specifications appear on the emitted declaration in their original
\* relative order.
C10_OtherAttrsKeepOrder ==
    Succeeded =>
        SelectSeq(result.item[1].attrs, IsOtherAttr)
            = SelectSeq(input_item.attrs, IsOtherAttr)

\* The implementation blocks built so far belong, in order, to the supplied
\* targets; Block(i) is the one of target i and Body(i, k) the body it gives
\* to member k of the declaration.
Blocks == DOMAIN impls
Members(i) == DOMAIN impls[i].methods
Body(i, k) == impls[i].methods[k].default

\* C2 (as claimed): a method that declares a body keeps it wherever it
\* appears, in the emitted declaration and in every implementation block; a
\* forwarding body is installed only for methods without a body.
C2_BodiesPreserved ==
    /\ Succeeded => result.item[1].items = input_item.items
    /\ \A i \in Blocks : \A k \in Members(i) :
          IF HadBody(k) THEN Body(i, k) = input_item.items[k].default
                        ELSE Body(i, k).kind = "Call"

\* C2 (amended): the emitted declaration reproduces every member unchanged,
\* body or not; every implementation block has one method per member, with
\* the member's name and inputs, and its body is the forwarding call whether
\* or not the member declared a body.
C2_DeclUnchangedImplsForward ==
    /\ Succeeded => result.item[1].items = input_item.items
    /\ \A i \in Blocks :
          /\ Len(impls[i].methods) = Len(input_item.items)
          /\ \A k \in Members(i) :
                /\ impls[i].methods[k].ident = input_item.items[k].ident
                /\ impls[i].methods[k].inputs = input_item.items[k].inputs
                /\ Body(i, k).kind = "Call"
                /\ ~impls[i].methods[k].semi_token

C2_Witness ==
    /\ Succeeded
    /\ Len(result.impls) >= 2
    /\ \E k \in DOMAIN input_item.items : HadBody(k)
    /\ \E k \in DOMAIN input_item.items : ~HadBody(k)

\* C3: in every implementation block the body of method m calls the function
\* named m, on the forward target F when the target of the block names one,
\* passing the projection of self chosen by m's receiver (Deref::deref for
\* &self, DerefMut::deref_mut for &mut self, into for self, none for a static
\* m) followed by m's remaining parameters by identifier in their order.
C3_ForwardingCall ==
    \A i \in Blocks : \A k \in Members(i) :
        /\ Body(i, k).name = input_item.items[k].ident
        /\ Body(i, k).args = ExpectedArgs(input_item.items[k].inputs)
        /\ \A a \in BoundArgs(SuppliedTargets[i]) :
              Body(i, k).path = GenericArgsOf(SuppliedTargets[i])[a].ident

C3_Witness ==
    /\ Succeeded
    /\ \E i \in Blocks :
          /\ BoundArgs(SuppliedTargets[i]) # {}
          /\ \E k \in Members(i) :
                /\ ReceiverKind(input_item.items[k].inputs) = "ByMutRef"
                /\ Len(Body(i, k).args) = 1 + MaxParams
          /\ \E k \in Members(i) :
                ReceiverKind(input_item.items[k].inputs) \in {"None", "ByValue"}

\* C4 (as claimed): the type named in the generated bodies is the target type
\* itself when no generic argument of the target carries a bound naming the
\* trait, and the generic argument carrying the bound when exactly one does.
C4_ForwardsToTargetOrBoundArg ==
    \A i \in Blocks : \A k \in Members(i) :
        LET bound == BoundArgs(SuppliedTargets[i]) IN
        /\ bound = {} => Body(i, k).path = SuppliedTargets[i].ident
        /\ \A a \in bound : Body(i, k).path = GenericArgsOf(SuppliedTargets[i])[a].ident

\* C4 (amended): the type named in the generated bodies is the trait itself
\* when no generic argument of the target carries a bound naming the trait
\* (also when the target has no generic arguments), and the generic argument
\* carrying the bound when exactly one does.
C4_ForwardsToTraitOrBoundArg ==
    \A i \in Blocks : \A k \in Members(i) :
        LET bound == BoundArgs(SuppliedTargets[i]) IN
        /\ Cardinality(bound) <= 1
        /\ bound = {} => Body(i, k).path = input_item.ident
        /\ \A a \in bound : Body(i, k).path = GenericArgsOf(SuppliedTargets[i])[a].ident

C4_Witness ==
    /\ Succeeded
    /\ Len(result.impls) = 2
    /\ result.impls[1].methods # <<>>
    /\ GenericArgsOf(SuppliedTargets[1]) # <<>>
    /\ BoundArgs(SuppliedTargets[1]) = {}
    /\ BoundArgs(SuppliedTargets[2]) # {}

\* C5 (as claimed): the header of the block of a target with generic
\* arguments has as many arguments as the target, and every argument written
\* as a constrained parameter is a plain parameter in the header.
C5_HeaderArgsUnconstrained ==
    \A i \in Blocks :
        LET written == GenericArgsOf(SuppliedTargets[i]) IN
        written # <<>> =>
            /\ Len(impls[i].generics.args) = Len(written)
            /\ \A a \in DOMAIN written :
                  written[a].kind = "Constraint" =>
                      impls[i].generics.args[a] = GenericType(written[a].ident)

\* C5 (amended): the header of the block of a target with generic arguments
\* repeats the target's generic arguments as written, in number, order and
\* constraints; it is in the type the block is for that every constrained
\* parameter appears as a plain parameter, the other arguments unchanged.
C5_HeaderAsWrittenTargetPlain ==
    \A i \in Blocks :
        LET written == GenericArgsOf(SuppliedTargets[i]) IN
        written # <<>> =>
            /\ impls[i].generics = SuppliedTargets[i].arguments
            /\ Len(impls[i].self_ty.arguments.args) = Len(written)
            /\ \A a \in DOMAIN written :
                  impls[i].self_ty.arguments.args[a] =
                      IF written[a].kind = "Constraint"
                      THEN GenericType(written[a].ident) ELSE written[a]

C5_Witness ==
    /\ Succeeded
    /\ \E i \in Blocks :
          LET written == GenericArgsOf(SuppliedTargets[i]) IN
          /\ Len(written) >= 2
          /\ \E a \in DOMAIN written :
                written[a].kind = "Constraint" /\ a \in BoundArgs(SuppliedTargets[i])
          /\ \E a \in DOMAIN written :
                written[a].kind = "Constraint" /\ a \notin BoundArgs(SuppliedTargets[i])

\* The first supplied target with two or more generic arguments that each
\* carry a bound naming the trait (0 when there is none).
AmbiguousTargets == {i \in DOMAIN SuppliedTargets : HasAmbiguousBounds(SuppliedTargets[i])}
FirstAmbiguous ==
    IF AmbiguousTargets = {} THEN 0
    ELSE CHOOSE i \in AmbiguousTargets : \A j \in AmbiguousTargets : i <= j

\* C6 (as claimed): whenever some supplied target, primary or secondary, has
\* two or more generic arguments each bound to the trait, generation fails
\* with AmbiguousForwardTarget and emits no output.
C6_AmbiguousAlwaysReported ==
    AllParse /\ AmbiguousTargets # {} =>
        /\ NoOutput
        /\ Returned => result.error = AmbiguousForwardTarget

\* C6 (amended): whenever some supplied target has two or more generic
\* arguments each bound to the trait, generation emits no output and a run
\* that returns returns a diagnostic; the diagnostic is
\* AmbiguousForwardTarget when every target before the first such target can
\* be resolved and, unless that target is the primary, the declaration has
\* only methods; otherwise the run has ended at the earlier failure.
C6_AmbiguousRejected ==
    AllParse /\ AmbiguousTargets # {} =>
        /\ NoOutput
        /\ Returned => result.error # ""
        /\ ( /\ Returned
             /\ \A j \in 1..(FirstAmbiguous - 1) : Resolvable(SuppliedTargets[j])
             /\ FirstAmbiguous = 1 \/ ~HasNonMethod )
           => result.error = AmbiguousForwardTarget

C6_Witness ==
    /\ Returned
    /\ AllParse
    /\ FirstAmbiguous >= 2
    /\ Len(impls) = FirstAmbiguous - 1
    /\ result.error = AmbiguousForwardTarget

\* C7 (as claimed): whenever the declaration has a non-method member, at any
\* position and whatever the target types are, generation fails with
\* UnsupportedMember and emits no implementation block.
C7_NonMethodAlwaysUnsupportedMember ==
    AllParse /\ HasNonMethod =>
        /\ NoOutput
        /\ Returned => result.error = UnsupportedMember

\* C7 (amended): whenever the declaration has a non-method member, at any
\* position, generation emits neither the declaration nor an implementation
\* block and a run that returns returns a diagnostic; the diagnostic is
\* UnsupportedMember when every target specification parses and the primary
\* target can be resolved; otherwise the run has ended at the earlier failure.
C7_NonMethodRejected ==
    HasNonMethod =>
        /\ NoOutput
        /\ impls = <<>>
        /\ Returned => result.error # ""
        /\ (Returned /\ AllParse /\ Resolvable(SuppliedTargets[1]))
              => result.error = UnsupportedMember

C7_Witness ==
    /\ Returned
    /\ result.error = UnsupportedMember
    /\ Len(SuppliedTargets) >= 2
    /\ input_item.items[1].kind = "Method"
    /\ input_item.items[Len(input_item.items)].kind # "Method"

\* C8: a successful run with k secondary annotations emits the declaration
\* followed by exactly k+1 implementation blocks of the trait, the i-th for
\* the i-th supplied target: the primary, then the secondaries in the order
\* of their annotations.
C8_OneBlockPerTargetInOrder ==
    Succeeded =>
        /\ Len(result.item) = 1
        /\ Len(result.impls) = Len(Secondary) + 1
        /\ \A i \in DOMAIN result.impls :
              /\ result.impls[i].trait_name = input_item.ident
              /\ result.impls[i].self_ty = PlainTarget(SuppliedTargets[i])

C8_Witness ==
    /\ Succeeded
    /\ Len(result.impls) >= 3
    /\ result.impls[1].self_ty # result.impls[2].self_ty
    /\ result.impls[2].self_ty # result.impls[3].self_ty

\* C9: a run that fails at any stage returns the diagnostic only: neither the
\* declaration nor any implementation block, also when blocks had been built
\* for earlier targets.
C9_DiagnosticOnly ==
    /\ result.error # "" => Returned /\ NoOutput
    /\ Returned /\ result.item = <<>> =>
          result.error \in {MissingArgument, UnsupportedType, UnsupportedTypeArguments,
                            AmbiguousForwardTarget, UnsupportedMember}

C9_Witness ==
    /\ Returned
    /\ result.error \in {UnsupportedType, AmbiguousForwardTarget}
    /\ Len(impls) >= 2

====
